---- MODULE Spec2Model ----
(***************************************************************************)
(* Bulk ingestion and export tracking engine of ai-bridge-be.              *)
(*                                                                         *)
(* Part I   : AnnotationSessionsService (annotation session ledger), each  *)
(*            service call taken as one step          -> Spec              *)
(* Part II  : exportSession calls interleaved at their await points        *)
(*                                                    -> SpecExportRace    *)
(* Part III : SentencesController.uploadCsv with DuplicateDetectionService,*)
(*            SentencesService.bulkCreate and DocumentTrackingService      *)
(*                                                    -> SpecUpload        *)
(*                                                                         *)
(* Date values (started_at, last_activity_at, completed_at, exported_at,    *)
(* updated_at, processing_time_ms) and the free-text name, description and *)
(* language_filter fields decide nothing about the id lists, the counters, *)
(* the export log or the document records and are left out of the state.   *)
(***************************************************************************)
EXTENDS Integers, Sequences, FiniteSets, TLC

\* ------------------------------------------------------------------ bounds
\* number of distinct sentence ids a session can be asked about
MaxIds == 3
\* longest explicit sentence_ids list given to exportSession
MaxList == 2
\* number of distinct export file names
MaxNames == 1
\* number of distinct signed download urls
MaxUrls == 2
\* concurrent exportSession calls in SpecExportRace
MaxCalls == 2
\* upload attempts in SpecUpload
MaxUploads == 2
\* rows of an uploaded file
MaxRows == 2

Ids == 1..MaxIds
FileNames == 1..MaxNames
Urls == 1..MaxUrls
Calls == 1..MaxCalls

VARIABLES
    session,   \* the stored AnnotationSession document
    files,     \* which export file names hold an object in storage
    lastOp,    \* outcome of the last completed service call (observer)
    calls,     \* SpecExportRace: the exportSession calls in flight
    corpus,    \* the Sentences collection
    docs,      \* the DocumentUpload collection, by document_id
    uploads,   \* SpecUpload: the uploadCsv calls, by attempt
    parser,    \* SpecParser: the last CsvParserService.parseFile call
    edits,     \* the addAnnotatedSentence / removeAnnotatedSentence calls in flight
    marks,     \* SpecAnnotationExport: bias_label and exported_at of each sentence
    annotationExports,  \* the AnnotationExport collection
    exportCalls         \* the exportAnnotations calls in flight

sessionVars == <<session, files, lastOp>>
raceVars == <<calls>>
uploadVars == <<corpus, docs, uploads>>
parserVars == <<parser>>
editVars == <<edits>>
annotationExportVars == <<marks, annotationExports, exportCalls>>
vars == <<session, files, lastOp, calls, corpus, docs, uploads, parser, edits,
          marks, annotationExports, exportCalls>>

\* ------------------------------------------------------------ list helpers
Range(s) == {s[i] : i \in 1..Len(s)}

\* arr.some((x) => x.toString() === id.toString())
Contains(arr, id) == \E i \in 1..Len(arr) : arr[i] = id

\* arr.filter((x) => !other.some(...))
FilterNotIn(arr, other) == SelectSeq(arr, LAMBDA x : ~Contains(other, x))

\* arr.filter((x) => x.toString() !== id.toString())
FilterOut(arr, id) == SelectSeq(arr, LAMBDA x : x # id)

SeqsUpTo(S, n) == UNION {[1..k -> S] : k \in 0..n}

\* ===================================================================== I
\* AnnotationSessionsService

SessionStatus == {"active", "paused", "completed", "exported"}

NoSession ==
    [exists |-> FALSE, status |-> "active",
     annotated_sentence_ids |-> <<>>, exported_sentence_ids |-> <<>>,
     total_annotated |-> 0, total_exported |-> 0, exports |-> <<>>]

NewSession == [NoSession EXCEPT !.exists = TRUE]

NoOp == [op |-> "none", result |-> "none", explicit |-> FALSE]

Done(op, result) == [op |-> op, result |-> result, explicit |-> FALSE]

NoFiles == [n \in FileNames |-> FALSE]

\* create: a fresh document with empty id lists and zero counters; its
\* exports live under a folder named by the new _id, which holds nothing yet
create ==
    /\ ~session.exists
    /\ session' = NewSession
    /\ files' = NoFiles
    /\ lastOp' = Done("create", "ok")
    /\ UNCHANGED <<raceVars, uploadVars, parserVars, editVars, annotationExportVars>>

\* update: Object.assign of the whitelisted dto fields (name, description,
\* status, language_filter); the id lists and counters are not assignable
UpdatedSession(s, status) == [s EXCEPT !.status = status]

update(status) ==
    /\ session.exists
    /\ session' = UpdatedSession(session, status)
    /\ lastOp' = Done("update", "ok")
    /\ UNCHANGED <<files, raceVars, uploadVars, parserVars, editVars, annotationExportVars>>

\* (mutant) the id is pushed without the membership check
AddedSession_AlwaysPush(s, id) ==
    LET ids == Append(s.annotated_sentence_ids, id)
    IN  [s EXCEPT !.annotated_sentence_ids = ids, !.total_annotated = Len(ids)]

\* addAnnotatedSentence: push unless already present, recompute the count
AddedSession(s, id) ==
    IF Contains(s.annotated_sentence_ids, id) THEN s
    ELSE LET ids == Append(s.annotated_sentence_ids, id)
         IN  [s EXCEPT !.annotated_sentence_ids = ids,
                       !.total_annotated = Len(ids)]

addAnnotatedSentence(id) ==
    /\ session.exists
    /\ session' = AddedSession(session, id)
    /\ lastOp' = Done("addAnnotatedSentence", "ok")
    /\ UNCHANGED <<files, raceVars, uploadVars, parserVars, editVars, annotationExportVars>>

\* (mutant) the exported check of removeAnnotatedSentence left out
RemoveAllowed_NoCheck(s, id) == TRUE

\* removeAnnotatedSentence: BadRequest when the id is exported, else filter
RemoveAllowed(s, id) == ~Contains(s.exported_sentence_ids, id)

\* (mutant) the id is filtered out but the count is not recomputed
RemovedSession_StaleCount(s, id) ==
    [s EXCEPT !.annotated_sentence_ids = FilterOut(@, id)]

RemovedSession(s, id) ==
    LET ids == FilterOut(s.annotated_sentence_ids, id)
    IN  [s EXCEPT !.annotated_sentence_ids = ids, !.total_annotated = Len(ids)]

removeAnnotatedSentence(id) ==
    /\ session.exists
    /\ IF RemoveAllowed(session, id)
       THEN /\ session' = RemovedSession(session, id)
            /\ lastOp' = Done("removeAnnotatedSentence", "ok")
       ELSE /\ session' = session
            /\ lastOp' = Done("removeAnnotatedSentence", "BadRequest")
    /\ UNCHANGED <<files, raceVars, uploadVars, parserVars, editVars, annotationExportVars>>

\* (mutant) the default export takes every annotated id
ResolveDefault_NoFilter(s) == s.annotated_sentence_ids

\* exportSession, lines 188-230: which ids to export
ResolveDefault(s) ==
    FilterNotIn(s.annotated_sentence_ids, s.exported_sentence_ids)

\* (mutant) the membership validation of the explicit list left out
ExplicitRejected_NoValidation(s, list) == FALSE

ExplicitRejected(s, list) ==
    \E i \in 1..Len(list) : ~Contains(s.annotated_sentence_ids, list[i])

ResolveExplicit(s, list) == FilterNotIn(list, s.exported_sentence_ids)

Resolve(s, list) ==
    IF Len(list) > 0 THEN ResolveExplicit(s, list) ELSE ResolveDefault(s)

\* (mutant) the empty-result rejection left out
ResolveFails_NoEmptyCheck(s, list) ==
    Len(list) > 0 /\ ExplicitRejected(s, list)

ResolveFails(s, list) ==
    \/ Len(list) > 0 /\ ExplicitRejected(s, list)
    \/ Len(Resolve(s, list)) = 0

\* exportSession, lines 324-334: the in-memory mutation that is saved
ExportedSession(s, ids, fileName, url) ==
    LET exported == s.exported_sentence_ids \o ids
    IN  [s EXCEPT !.exported_sentence_ids = exported,
                  !.total_exported = Len(exported),
                  !.exports = Append(@, [sentence_count |-> Len(ids),
                                         file_name |-> fileName,
                                         download_url |-> url])]

\* (mutant) the session is mutated and saved before the storage calls
SessionAfterExport_SaveFirst(s, ids, fileName, url, uploadOk, urlOk) ==
    ExportedSession(s, ids, fileName, url)

\* exportSession, lines 314-336: upload, then getFileUrl, then mutate and save
SessionAfterExport(s, ids, fileName, url, uploadOk, urlOk) ==
    IF uploadOk /\ urlOk THEN ExportedSession(s, ids, fileName, url) ELSE s

\* files[n]: an object is stored under <user>/session-exports/<session>/<n>
FilesAfterExport(f, fileName, uploadOk) ==
    IF uploadOk THEN [f EXCEPT ![fileName] = TRUE] ELSE f

ExportResult(uploadOk, urlOk) ==
    IF ~uploadOk THEN "uploadFailed" ELSE IF ~urlOk THEN "urlFailed" ELSE "ok"

exportSession(list) ==
    /\ session.exists
    /\ UNCHANGED <<raceVars, uploadVars, parserVars, editVars, annotationExportVars>>
    /\ IF ResolveFails(session, list)
       THEN /\ session' = session
            /\ files' = files
            /\ lastOp' = [Done("exportSession", "BadRequest")
                            EXCEPT !.explicit = Len(list) > 0]
       ELSE \E fileName \in FileNames, url \in Urls,
               uploadOk \in BOOLEAN, urlOk \in BOOLEAN :
                /\ uploadOk \/ urlOk
                /\ LET ids == Resolve(session, list)
                   IN  /\ session' = SessionAfterExport(session, ids, fileName, url,
                                                        uploadOk, urlOk)
                       /\ files' = FilesAfterExport(files, fileName, uploadOk)
                       /\ lastOp' = [Done("exportSession",
                                          ExportResult(uploadOk, urlOk))
                                       EXCEPT !.explicit = Len(list) > 0]

\* (mutant) the regenerated event is logged as a new export event
RegeneratedSession_Appended(s, exportIndex, url) ==
    [s EXCEPT !.exports =
        Append(@, [@[exportIndex + 1] EXCEPT !.download_url = url])]

\* regenerateExportUrl: only exports[exportIndex].download_url is rewritten
RegeneratedSession(s, exportIndex, url) ==
    [s EXCEPT !.exports[exportIndex + 1].download_url = url]

regenerateExportUrl(exportIndex, urlOk) ==
    /\ session.exists
    /\ IF exportIndex < 0 \/ exportIndex >= Len(session.exports) \/ ~urlOk
       THEN /\ session' = session
            /\ lastOp' = Done("regenerateExportUrl", "NotFound")
       ELSE \E url \in Urls :
                /\ session' = RegeneratedSession(session, exportIndex, url)
                /\ lastOp' = Done("regenerateExportUrl", "ok")
    /\ UNCHANGED <<files, raceVars, uploadVars, parserVars, editVars, annotationExportVars>>

\* (mutant) delete without the exports check
DeleteAllowed_Always(s) == TRUE

\* delete: refused once total_exported > 0
DeleteAllowed(s) == ~(s.total_exported > 0)

delete ==
    /\ session.exists
    /\ IF DeleteAllowed(session)
       THEN /\ session' = NoSession
            /\ lastOp' = Done("delete", "ok")
       ELSE /\ session' = session
            /\ lastOp' = Done("delete", "BadRequest")
    /\ UNCHANGED <<files, raceVars, uploadVars, parserVars, editVars, annotationExportVars>>

InitSession ==
    /\ session = NoSession
    /\ files = NoFiles
    /\ lastOp = NoOp

IdleCall == [pc |-> "idle", local |-> NoSession, ids |-> <<>>,
             file_name |-> 1, url |-> 1]

InitRaceIdle == calls = [c \in Calls |-> IdleCall]

InitUploadIdle ==
    /\ corpus = <<>>
    /\ docs = <<>>
    /\ uploads = <<>>

\* no file has been handed to the parser
NoParse == [rows |-> <<>>, extension |-> "csv", outcome |-> "none", candidates |-> <<>>]

InitParserIdle == parser = NoParse

MaxEdits == 2
Edits == 1..MaxEdits

\* a call that has not started
IdleEdit == [pc |-> "idle", op |-> "none", id |-> 1, local |-> NoSession]

InitEditIdle == edits = [e \in Edits |-> IdleEdit]

\* no sentence is tracked and no exportAnnotations call was made
InitAnnotationExportIdle ==
    /\ marks = <<>>
    /\ annotationExports = <<>>
    /\ exportCalls = <<>>

Init ==
    /\ InitSession /\ InitRaceIdle /\ InitUploadIdle /\ InitParserIdle
    /\ InitEditIdle /\ InitAnnotationExportIdle

Next ==
    \/ create
    \/ \E status \in SessionStatus : update(status)
    \/ \E id \in Ids : addAnnotatedSentence(id)
    \/ \E id \in Ids : removeAnnotatedSentence(id)
    \/ \E list \in SeqsUpTo(Ids, MaxList) : exportSession(list)
    \/ \E exportIndex \in -1..MaxIds, urlOk \in BOOLEAN :
          regenerateExportUrl(exportIndex, urlOk)
    \/ delete

Spec == Init /\ [][Next]_vars

\* ------------------------------------------------------------ claims, I
annotated == Range(session.annotated_sentence_ids)
exported == Range(session.exported_sentence_ids)

\* C1: in every state reached by completed create, update,
\* addAnnotatedSentence, removeAnnotatedSentence, exportSession and
\* regenerateExportUrl calls every exported id is an annotated id, and no
\* step removes an id from exported_sentence_ids.
C1_ExportedSubsetAndPermanent ==
    /\ [](exported \subseteq annotated)
    /\ [][exported \subseteq Range(session'.exported_sentence_ids)]_vars

\* C1 witness: an id is exported and a removal of an exported id was refused
C1_Witness ==
    /\ lastOp = Done("removeAnnotatedSentence", "BadRequest")
    /\ exported # {}

\* C2: a successful exportSession call without an explicit list appends to
\* exported_sentence_ids exactly the annotated ids that were not exported
\* when it was called, none of the ids exported before, and logs their number
\* as sentence_count.
C2_DefaultExportStep ==
    (lastOp' = Done("exportSession", "ok") /\ session' # session) =>
        LET before == session.exported_sentence_ids
            after == session'.exported_sentence_ids
            new == SubSeq(after, Len(before) + 1, Len(after))
        IN  /\ SubSeq(after, 1, Len(before)) = before
            /\ Range(new) = annotated \ exported
            /\ Range(new) \cap exported = {}
            /\ Len(session'.exports) = Len(session.exports) + 1
            /\ session'.exports[Len(session'.exports)].sentence_count
                   = Cardinality(annotated \ exported)

C2_DefaultExportSelectsUnexported == [][C2_DefaultExportStep]_vars

\* C2 witness: a default export of two ids, a later add of a third id, and a
\* second default export that covers that one id only
C2_Witness ==
    /\ lastOp = Done("exportSession", "ok")
    /\ Len(session.exports) = 2
    /\ session.exports[1].sentence_count = 2
    /\ session.exports[2].sentence_count = 1
    /\ session.total_exported = 3

\* C7: when the storage upload or the getFileUrl call of exportSession fails
\* the stored session is left as it was, and every id marked exported belongs
\* to an export event whose file was put in storage: each export event names
\* a stored file, and a step that marks ids exported stores its file.
C7_FailedExportStep ==
    /\ (lastOp'.op = "exportSession"
          /\ lastOp'.result \in {"uploadFailed", "urlFailed"})
        => session' = session
    /\ (session'.exists /\ session.exists
          /\ session'.exported_sentence_ids # session.exported_sentence_ids)
        => /\ Len(session'.exports) = Len(session.exports) + 1
           /\ files'[session'.exports[Len(session'.exports)].file_name]

exportFind(c, list) ==
    /\ calls[c].pc = "idle"
    /\ session.exists
    /\ ~ResolveFails(session, list)
    /\ calls' = [calls EXCEPT ![c] = [@ EXCEPT !.pc = "upload",
                                                !.local = session,
                                                !.ids = Resolve(session, list)]]
    /\ UNCHANGED <<sessionVars, uploadVars, parserVars, editVars, annotationExportVars>>

\* await uploadService.upload: the rendered ids are now a file in storage
exportUpload(c, fileName, uploadOk) ==
    /\ calls[c].pc = "upload"
    /\ files' = FilesAfterExport(files, fileName, uploadOk)
    /\ calls' = [calls EXCEPT ![c] = [@ EXCEPT
                     !.pc = IF uploadOk THEN "url" ELSE "failed",
                     !.file_name = fileName]]
    /\ UNCHANGED <<session, lastOp, uploadVars, parserVars, editVars, annotationExportVars>>

\* await getFileUrl
exportGetUrl(c, url, urlOk) ==
    /\ calls[c].pc = "url"
    /\ calls' = [calls EXCEPT ![c] = [@ EXCEPT
                     !.pc = IF urlOk THEN "save" ELSE "failed",
                     !.url = url]]
    /\ UNCHANGED <<sessionVars, uploadVars, parserVars, editVars, annotationExportVars>>

\* session.save() of the document mutated in lines 325-334. The write that
\* reaches the collection is either the whole document held by the call
\* (last writer wins) or the changes made to it: the pushes onto
\* exported_sentence_ids and exports and the assigned total_exported.
SavedWhole(stored, local, ids, fileName, url) ==
    ExportedSession(local, ids, fileName, url)

SavedChanges(stored, local, ids, fileName, url) ==
    LET mine == ExportedSession(local, ids, fileName, url)
    IN  [stored EXCEPT
           !.exported_sentence_ids = @ \o ids,
           !.total_exported = mine.total_exported,
           !.exports = Append(@, mine.exports[Len(mine.exports)])]

exportSave(c) ==
    /\ calls[c].pc = "save"
    /\ \E whole \in BOOLEAN :
         session' = IF whole
                    THEN SavedWhole(session, calls[c].local, calls[c].ids,
                                    calls[c].file_name, calls[c].url)
                    ELSE SavedChanges(session, calls[c].local, calls[c].ids,
                                      calls[c].file_name, calls[c].url)
    /\ calls' = [calls EXCEPT ![c] = [@ EXCEPT !.pc = "saved"]]
    /\ UNCHANGED <<files, lastOp, uploadVars, parserVars, editVars, annotationExportVars>>

NextExportRace ==
    \/ create
    \/ \E id \in Ids : addAnnotatedSentence(id)
    \/ \E c \in Calls, list \in SeqsUpTo(Ids, MaxList) : exportFind(c, list)
    \/ \E c \in Calls, fileName \in FileNames, uploadOk \in BOOLEAN :
          exportUpload(c, fileName, uploadOk)
    \/ \E c \in Calls, url \in Urls, urlOk \in BOOLEAN : exportGetUrl(c, url, urlOk)
    \/ \E c \in Calls : exportSave(c)

SpecExportRace == Init /\ [][NextExportRace]_vars

\* ----------------------------------------------------------- claims, II
\* C3: for any interleaving of exportSession calls on one session each record
\* is exported at most once: the id sets of two completed exports (each
\* rendered into its own file and logged as its own export event) are
\* disjoint.
C3_ExportedAtMostOnce ==
    \A c1, c2 \in Calls :
        (c1 # c2 /\ calls[c1].pc = "saved" /\ calls[c2].pc = "saved")
          => Range(calls[c1].ids) \cap Range(calls[c2].ids) = {}


\* =================================================================== III
\* SentencesController.uploadCsv and the services it awaits

Attempts == 1..MaxUploads

\* values of the text column of an uploaded row; "" is a row without text
RawTexts == {"a", "b ", " ", ""}

\* String.prototype.trim on those values
Trim(t) == CASE t = "b " -> "b" [] t = " " -> "" [] OTHER -> t

Files == SeqsUpTo(RawTexts, MaxRows)

\* CsvParserService.mapRowToDto: a row without text is dropped, the text of
\* every other row is trimmed (the other columns are not part of the state)
RowKept(row) == row # ""

ParseRows(rows) ==
    LET kept == SelectSeq(rows, RowKept)
    IN  [i \in 1..Len(kept) |-> Trim(kept[i])]

\* randomUUID() of an attempt, ObjectId of a sentence
DocumentId(a) == <<"upload", a>>
SentenceId(n) == <<"sentence", n>>
NoDocumentId == <<"none", 0>>

\* a detector that never finds an existing record
bulkCheckDuplicates_NoneFound(c, sentences, queryOk) ==
    [t \in {} |-> NoDocumentId]

\* DuplicateDetectionService.bulkCheckDuplicates: text -> _id of the records
\* found by the one $or query; an empty map when the query throws
bulkCheckDuplicates(c, sentences, queryOk) ==
    LET asked == {Trim(sentences[i]) : i \in 1..Len(sentences)}
        found == {i \in 1..Len(c) : c[i].text \in asked}
        last(t) == CHOOSE i \in found :
                      /\ c[i].text = t
                      /\ \A j \in found : c[j].text = t => j <= i
    IN  IF queryOk
        THEN [t \in {c[i].text : i \in found} |-> c[last(t)]._id]
        ELSE [t \in {} |-> NoDocumentId]

\* (mutant) a validation that lets every candidate through
IsValid_Always(text) == TRUE

\* Boolean(sentence.text)
IsValid(text) == text # ""

\* lines 120-130: the texts handed to the existence query
sentencesToCheck(sentences) == SelectSeq(sentences, IsValid)

\* DuplicateDetectionService.processSentencesWithDuplicateCheck
processSentencesWithDuplicateCheck(c, sentences, documentId, queryOk) ==
    LET rows == [i \in 1..Len(sentences) |->
                    [text |-> sentences[i], rowNumber |-> i]]
        invalid == SelectSeq(rows, LAMBDA r : ~IsValid(r.text))
        checked == SelectSeq(rows, LAMBDA r : IsValid(r.text))
        toCheck == sentencesToCheck(sentences)
        duplicateMap == IF Len(toCheck) = 0
                        THEN [t \in {} |-> NoDocumentId]
                        ELSE bulkCheckDuplicates(c, toCheck, queryOk)
        isDup(r) == Trim(r.text) \in DOMAIN duplicateMap
        dups == SelectSeq(checked, isDup)
        fresh == SelectSeq(checked, LAMBDA r : ~isDup(r))
    IN  [validSentences |->
            [i \in 1..Len(fresh) |->
                [text |-> fresh[i].text, document_id |-> documentId]],
         duplicates |->
            [i \in 1..Len(dups) |->
                [text |-> dups[i].text,
                 existing_document_id |-> duplicateMap[Trim(dups[i].text)],
                 row_number |-> dups[i].rowNumber]],
         errors |->
            [i \in 1..Len(invalid) |->
                [row_number |-> invalid[i].rowNumber,
                 error |-> "Missing required field: text"]]]

NoProcessing == [validSentences |-> <<>>, duplicates |-> <<>>, errors |-> <<>>]

\* the indexes (0-based) of a sequence of n documents, ascending
RECURSIVE IndexesIn(_, _)
IndexesIn(failed, n) ==
    IF n = 0 THEN <<>>
    ELSE IF (n - 1) \in failed
         THEN Append(IndexesIn(failed, n - 1), n - 1)
         ELSE IndexesIn(failed, n - 1)

\* SentencesService.bulkCreate around insertMany(..., {ordered: false}):
\*   thrown           the call throws without writeErrors / insertedDocs
\*   failed # {}      it throws with one writeError per index in failed
\*   otherwise        every document is inserted
\* inserted are the documents written, stamped with document_id
bulkCreate(sentences, documentId, failed, thrown) ==
    LET n == Len(sentences)
        okIdx == IndexesIn((0..(n - 1)) \ failed, n)
        badIdx == IndexesIn(failed, n)
        written == [i \in 1..Len(okIdx) |->
                      [text |-> sentences[okIdx[i] + 1].text,
                       document_id |-> documentId]]
    IN  IF thrown
        THEN [success |-> FALSE, insertedCount |-> 0, inserted |-> <<>>,
              errors |-> <<[index |-> 0, error |-> "Unknown database error"]>>]
        ELSE IF failed # {}
        THEN [success |-> FALSE, insertedCount |-> Len(written),
              inserted |-> written,
              errors |-> [i \in 1..Len(badIdx) |->
                            [index |-> badIdx[i],
                             error |-> "Database insertion error"]]]
        ELSE [success |-> TRUE, insertedCount |-> n, inserted |-> written,
              errors |-> <<>>]

\* uploadCsv lines 302-311: bulkResult before (or without) the insert
NoBulkResult ==
    [success |-> TRUE, insertedCount |-> 0, inserted |-> <<>>, errors |-> <<>>]

\* the collection after the documents are written, each with a new _id
Inserted(c, written) ==
    c \o [i \in 1..Len(written) |->
            [_id |-> SentenceId(Len(c) + i), text |-> written[i].text,
             document_id |-> written[i].document_id]]

NoDoc ==
    [exists |-> FALSE, status |-> "none", total_rows |-> 0,
     successful_inserts |-> 0, failed_inserts |-> 0, duplicate_count |-> 0,
     duplicates |-> <<>>, errors |-> <<>>]

\* DocumentTrackingService.createDocumentRecord
createDocumentRecord(d, a, totalRows) ==
    [d EXCEPT ![a] = [NoDoc EXCEPT !.exists = TRUE, !.status = "processing",
                                   !.total_rows = totalRows]]

\* DocumentTrackingService.updateDocumentRecord: findOneAndUpdate sets the
\* fields of the dto on the record with that document_id, if there is one
updateDocumentRecord(d, a, dto) ==
    IF d[a].exists
    THEN [d EXCEPT ![a] = [f \in DOMAIN d[a] |->
                              IF f \in DOMAIN dto THEN dto[f] ELSE d[a][f]]]
    ELSE d

\* uploadCsv lines 335-350: the dto of the update on the success path
CompletedDto(processing, bulk) ==
    [successful_inserts |-> bulk.insertedCount,
     failed_inserts |-> Len(processing.errors) + Len(bulk.errors),
     duplicate_count |-> Len(processing.duplicates),
     duplicates |-> processing.duplicates,
     errors |-> processing.errors \o
                [i \in 1..Len(bulk.errors) |->
                    [row_number |-> bulk.errors[i].index + 1,
                     error |-> bulk.errors[i].error]],
     status |-> "completed"]

\* uploadCsv lines 375-387: the dto of the update in the catch block
FailedDto ==
    [successful_inserts |-> 0, failed_inserts |-> 0, duplicate_count |-> 0,
     status |-> "failed",
     errors |-> <<[row_number |-> 0, error |-> "Processing failed"]>>]

IdleUpload ==
    [pc |-> "idle", rows |-> <<>>, parsed |-> <<>>, queryOk |-> TRUE,
     processing |-> NoProcessing, bulk |-> NoBulkResult, thrown |-> FALSE]

Finished(a) == uploads[a].pc \in {"returned", "thrown"}

\* one request after the other: an attempt starts when the one before is over
Sequential(a) == \A b \in Attempts : b < a => Finished(b)

\* lines 263-274: parseFile, then the empty-result rejection; rows are the
\* rows read from the file, none when parseFile throws
uploadParse(a, file, parseOk) ==
    /\ uploads[a].pc = "idle"
    /\ LET parsed == IF parseOk THEN ParseRows(file) ELSE <<>>
       IN  uploads' = [uploads EXCEPT ![a] = [@ EXCEPT
                          !.rows = IF parseOk THEN file ELSE <<>>,
                          !.parsed = parsed,
                          !.pc = IF parseOk /\ Len(parsed) > 0
                                 THEN "store" ELSE "catch"]]
    /\ UNCHANGED <<corpus, docs, sessionVars, raceVars, parserVars, editVars, annotationExportVars>>

\* lines 276-281: uploadService.upload of the raw file
uploadStore(a, storeOk) ==
    /\ uploads[a].pc = "store"
    /\ uploads' = [uploads EXCEPT ![a].pc = IF storeOk THEN "create" ELSE "catch"]
    /\ UNCHANGED <<corpus, docs, sessionVars, raceVars, parserVars, editVars, annotationExportVars>>

\* lines 283-292: createDocumentRecord
uploadCreateRecord(a, saveOk) ==
    /\ uploads[a].pc = "create"
    /\ docs' = IF saveOk
               THEN createDocumentRecord(docs, a, Len(uploads[a].parsed))
               ELSE docs
    /\ uploads' = [uploads EXCEPT ![a].pc = IF saveOk THEN "detect" ELSE "catch"]
    /\ UNCHANGED <<corpus, sessionVars, raceVars, parserVars, editVars, annotationExportVars>>

\* (mutant) a failed existence query makes the detector throw
uploadDetect_FailClosed(a, queryOk) ==
    /\ uploads[a].pc = "detect"
    /\ LET result == processSentencesWithDuplicateCheck(
                        corpus, uploads[a].parsed, DocumentId(a), queryOk)
       IN  uploads' = [uploads EXCEPT ![a] = [@ EXCEPT
                          !.processing = IF queryOk THEN result ELSE NoProcessing,
                          !.queryOk = queryOk,
                          !.pc = IF ~queryOk THEN "catch"
                                 ELSE IF Len(result.validSentences) > 0
                                 THEN "insert" ELSE "finish"]]
    /\ UNCHANGED <<corpus, docs, sessionVars, raceVars, parserVars, editVars, annotationExportVars>>

\* lines 294-311: processSentencesWithDuplicateCheck
uploadDetect(a, queryOk) ==
    /\ uploads[a].pc = "detect"
    /\ LET result == processSentencesWithDuplicateCheck(
                        corpus, uploads[a].parsed, DocumentId(a), queryOk)
       IN  uploads' = [uploads EXCEPT ![a] = [@ EXCEPT
                          !.processing = result,
                          !.queryOk = queryOk,
                          !.pc = IF Len(result.validSentences) > 0
                                 THEN "insert" ELSE "finish"]]
    /\ UNCHANGED <<corpus, docs, sessionVars, raceVars, parserVars, editVars, annotationExportVars>>

\* lines 313-329: bulkCreate of the valid sentences
uploadInsert(a, failed, thrown) ==
    /\ uploads[a].pc = "insert"
    /\ failed \subseteq 0..(Len(uploads[a].processing.validSentences) - 1)
    /\ thrown => failed = {}
    /\ LET result == bulkCreate(uploads[a].processing.validSentences,
                                DocumentId(a), failed, thrown)
       IN  /\ corpus' = Inserted(corpus, result.inserted)
           /\ uploads' = [uploads EXCEPT ![a] = [@ EXCEPT
                             !.bulk = result, !.thrown = thrown,
                             !.pc = "finish"]]
    /\ UNCHANGED <<docs, sessionVars, raceVars, parserVars, editVars, annotationExportVars>>

\* an attempt that enters the catch block after every update of line 335
AfterFinish_AlwaysCatch(updateOk) == "catch"

\* where uploadCsv goes after the update of line 335
AfterFinish(updateOk) == IF updateOk THEN "returned" ELSE "catch"

\* lines 331-372: the update with the results, then the response
uploadFinish(a, updateOk) ==
    /\ uploads[a].pc = "finish"
    /\ docs' = IF updateOk
               THEN updateDocumentRecord(
                        docs, a, CompletedDto(uploads[a].processing, uploads[a].bulk))
               ELSE docs
    /\ uploads' = [uploads EXCEPT ![a].pc = AfterFinish(updateOk)]
    /\ UNCHANGED <<corpus, sessionVars, raceVars, parserVars, editVars, annotationExportVars>>

\* lines 373-390: the catch block; a throw of its own update leaves it too
uploadCatch(a, updateOk) ==
    /\ uploads[a].pc = "catch"
    /\ docs' = IF updateOk THEN updateDocumentRecord(docs, a, FailedDto) ELSE docs
    /\ uploads' = [uploads EXCEPT ![a].pc = "thrown"]
    /\ UNCHANGED <<corpus, sessionVars, raceVars, parserVars, editVars, annotationExportVars>>

\* the corpus holds nothing, or one sentence that came without a batch
InitialCorpora ==
    {<<>>,
     <<[_id |-> SentenceId(1), text |-> "a", document_id |-> NoDocumentId]>>}

InitUpload ==
    /\ InitSession
    /\ InitRaceIdle
    /\ InitParserIdle
    /\ InitEditIdle
    /\ InitAnnotationExportIdle
    /\ corpus \in InitialCorpora
    /\ docs = [a \in Attempts |-> NoDoc]
    /\ uploads = [a \in Attempts |-> IdleUpload]

NextUpload ==
    \/ \E a \in Attempts, file \in Files, parseOk \in BOOLEAN :
          Sequential(a) /\ uploadParse(a, file, parseOk)
    \/ \E a \in Attempts, storeOk \in BOOLEAN : uploadStore(a, storeOk)
    \/ \E a \in Attempts, saveOk \in BOOLEAN : uploadCreateRecord(a, saveOk)
    \/ \E a \in Attempts, queryOk \in BOOLEAN : uploadDetect(a, queryOk)
    \/ \E a \in Attempts, failed \in SUBSET (0..(MaxRows - 1)), thrown \in BOOLEAN :
          uploadInsert(a, failed, thrown)
    \/ \E a \in Attempts, updateOk \in BOOLEAN : uploadFinish(a, updateOk)
    \/ \E a \in Attempts, updateOk \in BOOLEAN : uploadCatch(a, updateOk)

SpecUpload == InitUpload /\ [][NextUpload]_vars

\* ---------------------------------------------------------- claims, III
Terminal == {"completed", "failed"}

\* C4: once an upload attempt has returned or thrown, its document record is
\* completed or failed, never processing, wherever the exception was thrown.
C4_LedgerTerminalAfterAttempt ==
    \A a \in Attempts :
        (Finished(a) /\ docs[a].exists) => docs[a].status \in Terminal

\* C5: a completed document record accounts for every parsed row:
\* successful_inserts + duplicate_count + failed_inserts = total_rows.
C5_RowCountConservation ==
    \A a \in Attempts :
        docs[a].status = "completed"
          => docs[a].successful_inserts + docs[a].duplicate_count
               + docs[a].failed_inserts = docs[a].total_rows

\* the second attempt uploads the rows of the first, both run to completion,
\* the insert of the first reports no error and the existence query of the
\* second succeeds
SameFileTwice ==
    /\ MaxUploads >= 2
    /\ docs[1].status = "completed"
    /\ docs[2].status = "completed"
    /\ uploads[1].rows = uploads[2].rows
    /\ uploads[1].bulk.errors = <<>>
    /\ uploads[2].queryOk

C8_RecordBeforeParse ==
    \A a \in Attempts : uploads[a].pc # "idle" => docs[a].exists

\* the status of a document record changes from none to processing, from
\* processing to completed or failed, or not at all
C9_StatusStep(a) ==
    \/ docs'[a].status = docs[a].status
    \/ docs[a].status = "none" /\ docs'[a].status = "processing"
    \/ docs[a].status = "processing" /\ docs'[a].status \in Terminal

\* C9: a document record starts at processing and its status changes at most
\* once, to completed or failed; a terminal record is never written again.
C9_StatusChangesOnce ==
    [][\A a \in Attempts :
          /\ C9_StatusStep(a)
          /\ docs[a].status \in Terminal => docs'[a] = docs[a]]_vars

C9_Witness ==
    \E a, b \in Attempts :
        /\ docs[a].status = "completed" /\ uploads[a].pc = "returned"
        /\ docs[b].status = "failed" /\ uploads[b].pc = "thrown"

\* C10: an upload whose bulk insert failed as a whole (insertedCount 0, one
\* synthetic error) leaves its document record failed.
C10_TotalFailureMarksFailed ==
    \A a \in Attempts :
        (uploads[a].thrown /\ uploads[a].pc = "returned")
          => docs[a].status = "failed"

\* ------------------------------------------------- claims, I (continued)
\* the exportSession step of an explicit list / of the default selection
ExplicitBadRequest == [Done("exportSession", "BadRequest") EXCEPT !.explicit = TRUE]
DefaultBadRequest == Done("exportSession", "BadRequest")

C11_RemoveStep(id) ==
    removeAnnotatedSentence(id) =>
        IF id \in exported
        THEN /\ lastOp'.result = "BadRequest"
             /\ session'.annotated_sentence_ids = session.annotated_sentence_ids
             /\ session'.total_annotated = session.total_annotated
             /\ session'.exported_sentence_ids = session.exported_sentence_ids
        ELSE /\ lastOp'.result = "ok"
             /\ Range(session'.annotated_sentence_ids) = annotated \ {id}
             /\ session'.total_annotated = Len(session'.annotated_sentence_ids)
             /\ session'.total_annotated = Cardinality(annotated \ {id})
             /\ session'.exported_sentence_ids = session.exported_sentence_ids

\* C11: removeAnnotatedSentence of an exported id fails and leaves the id
\* lists and total_annotated as they were; of any other id it removes the id
\* from annotated_sentence_ids and recomputes total_annotated.
C11_RemoveRefusedWhenExported == [][\A id \in Ids : C11_RemoveStep(id)]_vars

\* C11 witness: a removal was refused in a session that holds one exported
\* id and one more annotated id
C11_Witness ==
    /\ lastOp = Done("removeAnnotatedSentence", "BadRequest")
    /\ Cardinality(exported) = 1
    /\ Cardinality(annotated) = 2

C12_ExplicitStep(list) ==
    (/\ lastOp'.op = "exportSession"
     /\ Len(list) > 0 /\ ~(Range(list) \subseteq annotated)
     /\ exportSession(list))
        => /\ lastOp' = ExplicitBadRequest
           /\ files' = files
           /\ session' = session

\* C12: exportSession with an explicit list holding an id that is not
\* annotated is rejected as a whole: nothing is stored and the session
\* (exported_sentence_ids, total_exported, exports) is unchanged.
C12_ExplicitNonMemberRejected ==
    [][\A list \in SeqsUpTo(Ids, MaxList) : C12_ExplicitStep(list)]_vars

\* C12 witness: an explicit export was refused although the session has
\* annotated ids and none of them is exported, so that the refusal can only
\* come from a listed id that is not annotated
C12_Witness ==
    /\ lastOp = ExplicitBadRequest
    /\ annotated # {}
    /\ exported = {}

\* the resolved set of exportSession is empty
C13_ResolvedEmpty(list) ==
    IF Len(list) > 0
    THEN Range(list) \subseteq exported
    ELSE annotated \subseteq exported

C13_EmptyStep(list) ==
    (/\ lastOp'.op = "exportSession"
     /\ C13_ResolvedEmpty(list)
     /\ exportSession(list))
        => /\ lastOp'.result = "BadRequest"
           /\ files' = files
           /\ session' = session

\* C13: exportSession fails when its resolved set is empty (nothing
\* annotated, everything annotated already exported, or an explicit list of
\* exported ids only); it stores nothing and leaves the session unchanged.
C13_EmptyExportRejected ==
    [][\A list \in SeqsUpTo(Ids, MaxList) : C13_EmptyStep(list)]_vars

\* C13 witness: a default export was refused in a session whose annotated ids
\* are all exported
C13_Witness ==
    /\ lastOp = DefaultBadRequest
    /\ annotated # {}
    /\ annotated = exported
    /\ Len(session.exports) = 1

C14_AddStep(id) ==
    (addAnnotatedSentence(id) /\ id \in annotated) => session' = session

\* C14: addAnnotatedSentence of an id that is already annotated leaves the id
\* list and total_annotated unchanged, and adding an id twice gives the same
\* session as adding it once.
C14_AddIdempotent ==
    /\ [][\A id \in Ids : C14_AddStep(id)]_vars
    /\ [](\A id \in Ids :
            AddedSession(AddedSession(session, id), id) = AddedSession(session, id))

\* C14 witness: the last operation was an add and every annotated id is
\* exported, so the id added was annotated (and exported) before
C14_Witness ==
    /\ lastOp = Done("addAnnotatedSentence", "ok")
    /\ exported # {}
    /\ annotated = exported
    /\ session.total_annotated = Cardinality(annotated)

\* ------------------------------------------------ claims, III (continued)
\* the batch ids of the corpus records whose text is the key of a duplicate
MatchedBatchIds(text) ==
    {corpus[j].document_id : j \in {k \in 1..Len(corpus) : corpus[k].text = Trim(text)}}

\* C15: every duplicate entry of a document record carries in
\* existing_document_id the document_id (upload batch) of a corpus record
\* with the same text.
C15_DuplicateCarriesBatchId ==
    \A a \in Attempts :
        \A i \in 1..Len(docs[a].duplicates) :
            docs[a].duplicates[i].existing_document_id
                \in MatchedBatchIds(docs[a].duplicates[i].text)

\* the texts of the candidates that pass validation, in file order
ValidTexts(a) == SelectSeq(uploads[a].parsed, LAMBDA t : t # "")

\* C16: when the existence query of the detector fails, every candidate that
\* passed validation is in validSentences, duplicates is empty, and the
\* upload goes on to the bulk insert.
C16_FailOpen ==
    \A a \in Attempts :
        ~uploads[a].queryOk =>
            LET p == uploads[a].processing
            IN  /\ p.duplicates = <<>>
                /\ [i \in 1..Len(p.validSentences) |-> p.validSentences[i].text]
                       = ValidTexts(a)
                /\ Len(ValidTexts(a)) > 0
                     => \/ uploads[a].pc = "insert"
                        \/ uploads[a].bulk # NoBulkResult

\* C16 witness: the query of an attempt failed and the attempt inserted a
\* text that the corpus already held
C16_Witness ==
    \E a \in Attempts :
        /\ ~uploads[a].queryOk
        /\ uploads[a].pc = "returned"
        /\ Len(corpus) = 2
        /\ corpus[1].document_id = NoDocumentId
        /\ corpus[2].text = corpus[1].text
        /\ corpus[2].document_id = DocumentId(a)

\* ------------------------------------------------- claims, I (continued)
C17_DeleteStep ==
    delete =>
        IF session.exports # <<>>
        THEN lastOp' = Done("delete", "BadRequest") /\ session' = session
        ELSE lastOp' = Done("delete", "ok") /\ session' = NoSession

\* C17: a session with export events is never deleted: delete fails and the
\* session stays as it is; delete removes a session without export events.
\* A session that has export events has total_exported > 0 and still exists
\* after every step.
C17_NoDeleteAfterExport ==
    /\ [][C17_DeleteStep]_vars
    /\ [](session.exports # <<>> => session.total_exported > 0)
    /\ [][session.exports # <<>> => session'.exists]_vars

\* C17 witness: delete was refused on a session with an export event
C17_Witness ==
    /\ lastOp = Done("delete", "BadRequest")
    /\ session.exists
    /\ Len(session.exports) >= 1

\* s and t are the same but for the download_url of export event i
SameButUrl(s, t, i) ==
    /\ Len(t.exports) = Len(s.exports)
    /\ [t EXCEPT !.exports[i].download_url = s.exports[i].download_url] = s

C18_RegenerateStep(exportIndex, urlOk) ==
    (lastOp'.op = "regenerateExportUrl" /\ regenerateExportUrl(exportIndex, urlOk))
        => /\ files' = files
           /\ IF exportIndex \in 0..(Len(session.exports) - 1) /\ urlOk
              THEN /\ lastOp'.result = "ok"
                   /\ SameButUrl(session, session', exportIndex + 1)
              ELSE /\ lastOp'.result = "NotFound"
                   /\ session' = session

BatchRows(a) ==
    LET p == uploads[a].processing
        out == {p.errors[i].row_number : i \in 1..Len(p.errors)}
                 \cup {p.duplicates[i].row_number : i \in 1..Len(p.duplicates)}
    IN  {r \in 1..Len(uploads[a].parsed) : r \notin out}

\* the row of the parsed file of the record at (0-based) index k of the batch
FileRowOf(a, k) ==
    CHOOSE r \in BatchRows(a) :
        Cardinality({q \in BatchRows(a) : q < r}) = k

\* C19: the row_number of every insert error of a document record is the
\* row of the failing record in the parsed file, in the numbering of the
\* validation errors and duplicates.
C19_InsertErrorRowNumber ==
    \A a \in Attempts :
        (docs[a].status = "completed" /\ ~uploads[a].thrown) =>
            LET p == uploads[a].processing
                b == uploads[a].bulk
            IN  \A i \in 1..Len(b.errors) :
                    docs[a].errors[Len(p.errors) + i].row_number
                        = FileRowOf(a, b.errors[i].index)

\* the corpus records stamped with the document_id of attempt a
StampedWith(a) == {j \in 1..Len(corpus) : corpus[j].document_id = DocumentId(a)}

\* C20: a terminal document record tells the true outcome: its
\* successful_inserts is the number of corpus records stamped with its
\* document_id, also when the record is written by the failure path.
C20_TerminalCountsTrue ==
    \A a \in Attempts :
        docs[a].status \in Terminal
          => docs[a].successful_inserts = Cardinality(StampedWith(a))

\* uploadCsv lines 352-372: the response of an attempt that returns
UploadResponse(parsed, processing, bulk) ==
    [processing |->
        [totalRows |-> Len(parsed),
         successfulInserts |-> bulk.insertedCount,
         duplicatesFound |-> Len(processing.duplicates),
         errorsFound |-> Len(processing.errors) + Len(bulk.errors),
         success |-> bulk.success],
     duplicates |-> processing.duplicates,
     errors |-> processing.errors]

ResponseOf(a) ==
    UploadResponse(uploads[a].parsed, uploads[a].processing, uploads[a].bulk)

\* C21: every failure counted in errorsFound of an upload response has an
\* entry in the errors list of that response: errorsFound is the length of
\* the list.
C21_ErrorsFoundAreListed ==
    \A a \in Attempts :
        uploads[a].pc = "returned"
          => ResponseOf(a).processing.errorsFound = Len(ResponseOf(a).errors)

\* C22: a row whose key equals that of an earlier row of the same file is a
\* duplicate and is not inserted: one upload, with its existence query
\* answered, never inserts two corpus records with the same text.
C22_NoIntraFileDuplicates ==
    \A a \in Attempts :
        uploads[a].queryOk =>
            \A i, j \in StampedWith(a) :
                i # j => corpus[i].text # corpus[j].text

\* ==================================================================== IV
\* CsvParserService

MaxCsvRows == 2

\* a row with every required column filled and no optional column
GoodRow ==
    [text |-> "a", language |-> "ha", country |-> "NG",
     source_type |-> "community", domain |-> "health", theme |-> "stereotypes",
     script |-> "", sensitive_characteristic |-> "", safety_flag |-> ""]

\* the values tried in each column: "" is an empty or absent cell, "xx" is
\* outside every vocabulary, the capitalised values need normalising
ColumnValues ==
    [text |-> {"", " ", "b "},
     language |-> {""},
     country |-> {""},
     source_type |-> {"", "Media ", "xx"},
     domain |-> {"", "Education ", "xx"},
     theme |-> {"", "Misinformation ", "xx"},
     script |-> {"latin", "Geez ", "xx"},
     sensitive_characteristic |-> {"age", "Gender ", "xx"},
     safety_flag |-> {"reject", "Sensitive ", "xx"}]

\* the good row, and the rows that differ from it in one column
CsvRows ==
    {GoodRow} \cup
    UNION {{[GoodRow EXCEPT ![col] = v] : v \in ColumnValues[col]} :
              col \in DOMAIN ColumnValues}

CsvFiles == SeqsUpTo(CsvRows, MaxCsvRows)

Extensions == {"csv", "xlsx", "txt"}

\* the closed vocabularies
Script == {"latin", "geez", "arabic", "ajami", "tifinagh", "nko", "vai", "other"}
SourceType == {"community", "web_public", "interview", "media", "other"}
Domain == {"culture_and_religion", "education", "health",
           "livelihoods_and_work", "governance_civic", "media_and_online",
           "household_and_care"}
Theme == {"stereotypes", "hate_or_insult", "misinformation",
          "public_interest", "specialized_advice"}
SensitiveCharacteristic ==
    {"age", "disability", "ethnicity", "gender", "health_status", "income_level",
     "nationality", "religion", "tribe", "other"}
SafetyFlag == {"safe", "sensitive", "reject"}

\* value.toLowerCase().trim() on the values above
LowerTrim(v) ==
    CASE v = "Media " -> "media"
      [] v = "Education " -> "education"
      [] v = "Misinformation " -> "misinformation"
      [] v = "Geez " -> "geez"
      [] v = "Gender " -> "gender"
      [] v = "Sensitive " -> "sensitive"
      [] OTHER -> v

Undefined == "undefined"

\* CsvParserService.parseEnum
parseEnum(value, enumObj) ==
    IF value = "" THEN Undefined
    ELSE IF LowerTrim(value) \in enumObj THEN LowerTrim(value)
    ELSE Undefined

\* a || b of JavaScript for a possibly undefined enum value
OrElse(v, default) == IF v = Undefined THEN default ELSE v

\* CsvParserService.mapRowToDto: does the row yield a candidate
RowMapped(row) ==
    /\ ~(\/ row.text = "" \/ row.language = "" \/ row.country = ""
         \/ row.source_type = "" \/ row.domain = "" \/ row.theme = "")
    /\ parseEnum(row.source_type, SourceType) # Undefined
    /\ parseEnum(row.domain, Domain) # Undefined
    /\ parseEnum(row.theme, Theme) # Undefined

\* CsvParserService.mapRowToDto: the candidate of a row that yields one
mapRowToDto(row) ==
    [text |-> Trim(row.text),
     language |-> Trim(row.language),
     script |-> OrElse(parseEnum(row.script, Script), "latin"),
     country |-> Trim(row.country),
     source_type |-> parseEnum(row.source_type, SourceType),
     domain |-> parseEnum(row.domain, Domain),
     theme |-> parseEnum(row.theme, Theme),
     sensitive_characteristic |->
         OrElse(parseEnum(row.sensitive_characteristic, SensitiveCharacteristic),
                "null"),
     safety_flag |-> OrElse(parseEnum(row.safety_flag, SafetyFlag), "safe")]

\* parseCsv / parseXlsx: the candidates of the rows, in source order
MapRows(rows) ==
    LET kept == SelectSeq(rows, RowMapped)
    IN  [i \in 1..Len(kept) |-> mapRowToDto(kept[i])]

\* CsvParserService.parseFile
parseFile(rows, extension) ==
    /\ parser' = IF extension \in {"csv", "xlsx", "xls"}
                 THEN [rows |-> rows, extension |-> extension,
                       outcome |-> "ok", candidates |-> MapRows(rows)]
                 ELSE [rows |-> rows, extension |-> extension,
                       outcome |-> "error", candidates |-> <<>>]
    /\ UNCHANGED <<sessionVars, raceVars, uploadVars, editVars, annotationExportVars>>

NextParser ==
    \E rows \in CsvFiles, extension \in Extensions : parseFile(rows, extension)

SpecParser == Init /\ [][NextParser]_vars

\* the enum-valued columns and their vocabularies
EnumColumns ==
    [script |-> Script, source_type |-> SourceType, domain |-> Domain,
     theme |-> Theme, sensitive_characteristic |-> SensitiveCharacteristic,
     safety_flag |-> SafetyFlag]

RequiredColumns == {"text", "language", "country", "source_type", "domain", "theme"}

\* a row that is to be dropped: a required column is missing, or an
\* enum-valued column holds a value that is not in its vocabulary
MustDrop(row) ==
    \/ \E col \in RequiredColumns : row[col] = ""
    \/ \E col \in DOMAIN EnumColumns :
          row[col] # "" /\ LowerTrim(row[col]) \notin EnumColumns[col]

\* C23: the parser drops exactly the rows with a missing required column or
\* with a value outside the vocabulary of one of the six enum-valued
\* columns; every other row gives one candidate, in source order.
C23_ParserDropsInvalidRows ==
    parser.outcome = "ok" =>
        LET kept == SelectSeq(parser.rows, LAMBDA row : ~MustDrop(row))
        IN  /\ Len(parser.candidates) = Len(kept)
            /\ \A i \in 1..Len(kept) :
                   parser.candidates[i].text = Trim(kept[i].text)

\* ------------------------------------------------ claims, III (continued)
\* attempt a has the result of processSentencesWithDuplicateCheck
Detected(a) == uploads[a].pc \in {"insert", "finish", "returned"}

\* the row numbers of the entries of a list, in list order
RowNumbers(entries) == [i \in 1..Len(entries) |-> entries[i].row_number]

Ascending(rs) == \A i, j \in 1..Len(rs) : i < j => rs[i] < rs[j]

C24_Partition(a) ==
    LET p == uploads[a].processing
        input == uploads[a].parsed
        errs == RowNumbers(p.errors)
        dups == RowNumbers(p.duplicates)
        fresh == {r \in 1..Len(input) : r \notin Range(errs) \cup Range(dups)}
    IN  /\ Len(p.validSentences) + Len(p.duplicates) + Len(p.errors) = Len(input)
        /\ Range(errs) \cup Range(dups) \subseteq 1..Len(input)
        /\ Range(errs) \cap Range(dups) = {}
        /\ Ascending(errs) /\ Ascending(dups)
        /\ \A i \in 1..Len(p.errors) : input[errs[i]] = ""
        /\ \A i \in 1..Len(p.duplicates) :
               /\ input[dups[i]] = p.duplicates[i].text
               /\ input[dups[i]] # ""
        /\ Cardinality(fresh) = Len(p.validSentences)
        /\ \A r \in fresh :
               p.validSentences[Cardinality({q \in fresh : q <= r})].text = input[r]
        /\ "" \notin Range(sentencesToCheck(input))

\* C24: processSentencesWithDuplicateCheck partitions its input: every
\* candidate is in exactly one of validSentences, duplicates and errors, the
\* row_number of an error or duplicate is the 1-based position of the
\* candidate, validSentences keeps the input order, and no candidate without
\* text is handed to the existence query.
C24_DetectorPartitions == \A a \in Attempts : Detected(a) => C24_Partition(a)

\* C24 witness: an attempt whose first candidate has no text and whose second
\* candidate is a duplicate
C24_Witness ==
    \E a \in Attempts :
        /\ Detected(a)
        /\ Len(uploads[a].parsed) = 2
        /\ RowNumbers(uploads[a].processing.errors) = <<1>>
        /\ RowNumbers(uploads[a].processing.duplicates) = <<2>>

\* ------------------------------------------------- claims, I (continued)
\* no value occurs twice in the list
NoRepeat(list) == Cardinality(Range(list)) = Len(list)

\* C25: after any sequence of session operations no id occurs more than once
\* in annotated_sentence_ids nor in exported_sentence_ids.
C25_IdListsHaveNoRepeats ==
    /\ NoRepeat(session.annotated_sentence_ids)
    /\ NoRepeat(session.exported_sentence_ids)

\* the sum of sentence_count over an exports log
RECURSIVE SumCounts(_)
SumCounts(exports) ==
    IF exports = <<>> THEN 0
    ELSE exports[1].sentence_count + SumCounts(Tail(exports))

\* C26: after every session operation, run one at a time, total_annotated is
\* the number of distinct annotated ids, total_exported the number of
\* distinct exported ids, total_exported <= total_annotated, and the
\* sentence_count values of the exports log sum to total_exported.
C26_CountersMirrorSets ==
    /\ session.total_annotated = Cardinality(annotated)
    /\ session.total_exported = Cardinality(exported)
    /\ session.total_exported <= session.total_annotated
    /\ SumCounts(session.exports) = session.total_exported

\* ===================================================================== V
\* addAnnotatedSentence and removeAnnotatedSentence calls on one session,
\* interleaved at their await points: findOne (127, 156) and save (139, 147,
\* 177); exportSession calls as in part II.

\* addAnnotatedSentence, lines 127-145: read the session, push the id onto
\* the document read unless it is there
addFind(e, id) ==
    /\ edits[e].pc = "idle"
    /\ session.exists
    /\ edits' = [edits EXCEPT ![e] =
                    [pc |-> "save", op |-> "add", id |-> id, local |-> session]]
    /\ UNCHANGED <<sessionVars, raceVars, uploadVars, parserVars, annotationExportVars>>

\* session.save() of addAnnotatedSentence: the whole document held by the
\* call, or its changes (the push onto annotated_sentence_ids and the
\* assigned total_annotated)
AddSavedWhole(stored, local, id) == AddedSession(local, id)

AddSavedChanges(stored, local, id) ==
    IF Contains(local.annotated_sentence_ids, id) THEN stored
    ELSE [stored EXCEPT
            !.annotated_sentence_ids = Append(@, id),
            !.total_annotated = AddedSession(local, id).total_annotated]

addSave(e) ==
    /\ edits[e].pc = "save"
    /\ edits[e].op = "add"
    /\ \E whole \in BOOLEAN :
         session' = IF whole
                    THEN AddSavedWhole(session, edits[e].local, edits[e].id)
                    ELSE AddSavedChanges(session, edits[e].local, edits[e].id)
    /\ edits' = [edits EXCEPT ![e].pc = "saved"]
    /\ UNCHANGED <<files, lastOp, raceVars, uploadVars, parserVars, annotationExportVars>>

\* removeAnnotatedSentence, lines 156-175: read the session, refuse an
\* exported id, filter the id out of the document read
removeFind(e, id) ==
    /\ edits[e].pc = "idle"
    /\ session.exists
    /\ edits' = [edits EXCEPT ![e] =
                    [pc |-> IF RemoveAllowed(session, id) THEN "save" ELSE "rejected",
                     op |-> "remove", id |-> id, local |-> session]]
    /\ UNCHANGED <<sessionVars, raceVars, uploadVars, parserVars, annotationExportVars>>

\* session.save() of removeAnnotatedSentence: the whole document held by the
\* call, or its changes (the assigned annotated_sentence_ids and
\* total_annotated)
RemoveSavedWhole(stored, local, id) == RemovedSession(local, id)

RemoveSavedChanges(stored, local, id) ==
    [stored EXCEPT
       !.annotated_sentence_ids = RemovedSession(local, id).annotated_sentence_ids,
       !.total_annotated = RemovedSession(local, id).total_annotated]

\* a write to one of the arrays of the document increments its version
VersionChanged(stored, local) ==
    \/ stored.exists # local.exists
    \/ stored.annotated_sentence_ids # local.annotated_sentence_ids
    \/ stored.exported_sentence_ids # local.exported_sentence_ids
    \/ stored.exports # local.exports

\* the save of an assigned array carries the version read: it is refused
\* (VersionError) when the stored document has another version by then
removeSave(e) ==
    /\ edits[e].pc = "save"
    /\ edits[e].op = "remove"
    /\ IF VersionChanged(session, edits[e].local)
       THEN /\ session' = session
            /\ edits' = [edits EXCEPT ![e].pc = "conflict"]
       ELSE /\ \E whole \in BOOLEAN :
                 session' = IF whole
                            THEN RemoveSavedWhole(session, edits[e].local, edits[e].id)
                            ELSE RemoveSavedChanges(session, edits[e].local, edits[e].id)
            /\ edits' = [edits EXCEPT ![e].pc = "saved"]
    /\ UNCHANGED <<files, lastOp, raceVars, uploadVars, parserVars, annotationExportVars>>

\* one exportSession call and one removeAnnotatedSentence call on a session
NextRemoveRace ==
    \/ create
    \/ \E id \in Ids : addAnnotatedSentence(id)
    \/ \E list \in SeqsUpTo(Ids, MaxList) : exportFind(1, list)
    \/ \E fileName \in FileNames, uploadOk \in BOOLEAN :
          exportUpload(1, fileName, uploadOk)
    \/ \E url \in Urls, urlOk \in BOOLEAN : exportGetUrl(1, url, urlOk)
    \/ exportSave(1)
    \/ \E id \in Ids : removeFind(1, id)
    \/ removeSave(1)

SpecRemoveRace == Init /\ [][NextRemoveRace]_vars

\* C27: whatever the interleaving of removeAnnotatedSentence and
\* exportSession calls on a session, every exported id is an annotated id.
C27_SubsetUnderRemoveExportRace == exported \subseteq annotated

\* AnnotationSessionsController.bulkAddSentences: one addAnnotatedSentence
\* call per listed id, all started before any is awaited
bulkAddStart(e, id) ==
    /\ \A f \in Edits : edits[f].pc # "idle" => edits[f].id # id
    /\ addFind(e, id)

NextBulkAdd ==
    \/ create
    \/ \E id \in Ids : addAnnotatedSentence(id)
    \/ \E e \in Edits, id \in Ids : bulkAddStart(e, id)
    \/ \E e \in Edits : addSave(e)

SpecBulkAdd == Init /\ [][NextBulkAdd]_vars

\* every call of the bulk add has saved
BulkAddCompleted == \A e \in Edits : edits[e].pc = "saved"

\* C30: when bulkAddSentences has completed for distinct ids, every one of
\* them is in annotated_sentence_ids and total_annotated is the size of
\* annotated_sentence_ids.
C30_BulkAddKeepsEveryId ==
    BulkAddCompleted =>
        /\ {edits[e].id : e \in Edits} \subseteq annotated
        /\ session.total_annotated = Len(session.annotated_sentence_ids)

\* ==================================================================== VI
\* uploadCsv requests that run at the same time: the steps of the attempts
\* interleave at the awaits of the pipeline

NextUploadRace ==
    \/ \E a \in Attempts, file \in Files, parseOk \in BOOLEAN :
          uploadParse(a, file, parseOk)
    \/ \E a \in Attempts, storeOk \in BOOLEAN : uploadStore(a, storeOk)
    \/ \E a \in Attempts, saveOk \in BOOLEAN : uploadCreateRecord(a, saveOk)
    \/ \E a \in Attempts, queryOk \in BOOLEAN : uploadDetect(a, queryOk)
    \/ \E a \in Attempts, failed \in SUBSET (0..(MaxRows - 1)), thrown \in BOOLEAN :
          uploadInsert(a, failed, thrown)
    \/ \E a \in Attempts, updateOk \in BOOLEAN : uploadFinish(a, updateOk)
    \/ \E a \in Attempts, updateOk \in BOOLEAN : uploadCatch(a, updateOk)

SpecUploadRace == InitUpload /\ [][NextUploadRace]_vars

\* the attempt that stamped the corpus record j had its existence query
\* answered
StampedByChecked(j) ==
    \E a \in Attempts :
        corpus[j].document_id = DocumentId(a) /\ uploads[a].queryOk

\* C28: two uploads that hold the same new text and run at the same time
\* commit at most one corpus record with that text.
C28_OneRecordPerTextUnderRace ==
    \A i, j \in 1..Len(corpus) :
        (/\ i # j
         /\ corpus[i].text = corpus[j].text
         /\ StampedByChecked(i) /\ StampedByChecked(j))
            => corpus[i].document_id = corpus[j].document_id

\* =================================================================== VII
\* SentencesService.exportAnnotations over the Sentences collection; calls
\* interleave at their awaits: find (410), upload (491), getFileUrl (497),
\* updateMany (502), exportRecord.save (517)

MaxSentences == 2
MaxExportCalls == 2
SentenceIds == 1..MaxSentences
ExportCalls == 1..MaxExportCalls

\* exported_at: null
NotExported == 0

\* new Date() of call c
ExportedAtOf(c) == c

IdleExportCall == [pc |-> "idle", ids |-> {}]

\* getExportableSentences: annotated and not yet exported
getExportableSentences(m) ==
    {s \in SentenceIds : m[s].bias_label /\ m[s].exported_at = NotExported}

\* lines 410-487: select, reject an empty selection, render
annotationsFind(c) ==
    /\ exportCalls[c].pc = "idle"
    /\ LET found == getExportableSentences(marks)
       IN  exportCalls' = [exportCalls EXCEPT ![c] =
               [pc |-> IF found = {} THEN "rejected" ELSE "upload", ids |-> found]]
    /\ UNCHANGED <<marks, annotationExports>>
    /\ UNCHANGED <<sessionVars, raceVars, uploadVars, parserVars, editVars>>

\* lines 489-497: uploadService.upload and getFileUrl
annotationsUpload(c, storageOk) ==
    /\ exportCalls[c].pc = "upload"
    /\ exportCalls' = [exportCalls EXCEPT
                          ![c].pc = IF storageOk THEN "mark" ELSE "failed"]
    /\ UNCHANGED <<marks, annotationExports>>
    /\ UNCHANGED <<sessionVars, raceVars, uploadVars, parserVars, editVars>>

\* lines 500-505: updateMany({_id: {$in: ids}}, {$set: {exported_at}})
MarkedExported(m, ids, at) ==
    [s \in SentenceIds |->
        IF s \in ids THEN [m[s] EXCEPT !.exported_at = at] ELSE m[s]]

annotationsMark(c, updateOk) ==
    /\ exportCalls[c].pc = "mark"
    /\ marks' = IF updateOk
                THEN MarkedExported(marks, exportCalls[c].ids, ExportedAtOf(c))
                ELSE marks
    /\ exportCalls' = [exportCalls EXCEPT
                          ![c].pc = IF updateOk THEN "record" ELSE "failed"]
    /\ UNCHANGED annotationExports
    /\ UNCHANGED <<sessionVars, raceVars, uploadVars, parserVars, editVars>>

\* lines 507-517: the AnnotationExport record of the call
annotationsRecord(c, saveOk) ==
    /\ exportCalls[c].pc = "record"
    /\ annotationExports' =
          IF saveOk
          THEN Append(annotationExports,
                      [exported_sentence_ids |-> exportCalls[c].ids,
                       sentence_count |-> Cardinality(exportCalls[c].ids),
                       exported_at |-> ExportedAtOf(c)])
          ELSE annotationExports
    /\ exportCalls' = [exportCalls EXCEPT
                          ![c].pc = IF saveOk THEN "done" ELSE "failed"]
    /\ UNCHANGED marks
    /\ UNCHANGED <<sessionVars, raceVars, uploadVars, parserVars, editVars>>

\* the sentences of the corpus, annotated or not, none exported
InitAnnotationExport ==
    /\ InitSession /\ InitRaceIdle /\ InitUploadIdle /\ InitParserIdle
    /\ InitEditIdle
    /\ marks \in [SentenceIds -> [bias_label : BOOLEAN, exported_at : {NotExported}]]
    /\ annotationExports = <<>>
    /\ exportCalls = [c \in ExportCalls |-> IdleExportCall]

NextAnnotationExport ==
    \/ \E c \in ExportCalls : annotationsFind(c)
    \/ \E c \in ExportCalls, storageOk \in BOOLEAN : annotationsUpload(c, storageOk)
    \/ \E c \in ExportCalls, updateOk \in BOOLEAN : annotationsMark(c, updateOk)
    \/ \E c \in ExportCalls, saveOk \in BOOLEAN : annotationsRecord(c, saveOk)

SpecAnnotationExport == InitAnnotationExport /\ [][NextAnnotationExport]_vars

\* the AnnotationExport records that list sentence s
ExportsListing(s) ==
    {k \in 1..Len(annotationExports) : s \in annotationExports[k].exported_sentence_ids}

\* C29: a sentence is exported once: for any interleaving of
\* exportAnnotations calls its id is in the exported_sentence_ids of at most
\* one AnnotationExport record.
C29_ExportedOnce ==
    \A s \in SentenceIds : Cardinality(ExportsListing(s)) <= 1

====
